---- MODULE Spec2Model ----
(***************************************************************************)
(* The options model of ang-jsoneditor: the class JsonEditorOptions of     *)
(* src/ang-jsoneditor/src/jsoneditor/jsoneditoroptions.ts.                 *)
(*                                                                         *)
(* The class is a bag of public data properties and a constructor that     *)
(* assigns fourteen literals.  A host builds a configuration with          *)
(* `new JsonEditorOptions()` and then assigns the fields it wants to       *)
(* change; the rendering engine only reads the object.  The class has no   *)
(* accessor, no method and no validation code.                             *)
(***************************************************************************)
EXTENDS Integers, Sequences, FiniteSets, TLC

VARIABLES
    options,    \* the JsonEditorOptions instance: field name -> value
    supplied,   \* history: the value the host last assigned to each field it set
    outcome,    \* how the last operation on the instance completed
    lookup      \* the last mode-applicability lookup and its answer

vars == <<options, supplied, outcome, lookup>>

(***************************************************************************)
(* Bounds.                                                                 *)
(***************************************************************************)
\* The host assigns at most this many distinct fields (each any number of times).
MaxSupplied == 2

(***************************************************************************)
(* JavaScript values, tagged by their typeof.                              *)
(***************************************************************************)
Undefined == <<"undefined">>
Bool(b) == <<"boolean", b>>
Num(n) == <<"number", n>>
Str(s) == <<"string", s>>
Obj(id) == <<"object", id>>
Fn(id) == <<"function", id>>
Arr(elems) == <<"array", elems>>

\* export type JsonEditorMode = 'tree' | 'view' | 'form' | 'text' | 'code' | 'preview'
JsonEditorMode == {"tree", "view", "form", "text", "code", "preview"}

(***************************************************************************)
(* The fields the class declares, by the kind of value they hold.          *)
(***************************************************************************)
BooleanFields ==
    {"escapeUnicode", "sortObjectKeys", "history", "search", "mainMenuBar",
     "navigationBar", "statusBar", "colorPicker", "enableSort",
     "enableTransform", "expandAll"}

NumberFields == {"indentation", "theme", "maxVisibleChilds"}

StringFields == {"name", "language", "queryDescription"}

ObjectFields ==
    {"ace", "ajv", "schema", "schemaRefs", "templates", "autocomplete",
     "languages", "modalAnchor", "popupAnchor"}

CallbackFields ==
    {"onChange", "onChangeJSON", "onChangeText", "onClassName", "onEditable",
     "onError", "onModeChange", "onNodeName", "onValidate",
     "onValidationError", "onCreateMenu", "onTextSelectionChange",
     "onSelectionChange", "onEvent", "onColorPicker", "timestampFormat",
     "createQuery", "executeQuery"}

Fields ==
    BooleanFields \cup NumberFields \cup StringFields \cup ObjectFields
        \cup CallbackFields \cup {"mode", "modes", "timestampTag"}

\* A constructor that also sets timestampTag to true, as that field's doc
\* comment ("If `true` (default)") would suggest.
JsonEditorOptions_TimestampTag ==
    [[f \in Fields |-> Undefined] EXCEPT
        !["escapeUnicode"] = Bool(FALSE),
        !["sortObjectKeys"] = Bool(FALSE),
        !["history"] = Bool(TRUE),
        !["mode"] = Str("tree"),
        !["search"] = Bool(TRUE),
        !["indentation"] = Num(2),
        !["mainMenuBar"] = Bool(TRUE),
        !["navigationBar"] = Bool(TRUE),
        !["statusBar"] = Bool(TRUE),
        !["colorPicker"] = Bool(TRUE),
        !["enableSort"] = Bool(TRUE),
        !["enableTransform"] = Bool(TRUE),
        !["maxVisibleChilds"] = Num(100),
        !["timestampTag"] = Bool(TRUE),
        !["expandAll"] = Bool(FALSE)]

(***************************************************************************)
(* constructor(): every declared field starts undefined, then the          *)
(* fourteen assignments of the constructor body run.                       *)
(***************************************************************************)
JsonEditorOptions ==
    [[f \in Fields |-> Undefined] EXCEPT
        !["escapeUnicode"] = Bool(FALSE),
        !["sortObjectKeys"] = Bool(FALSE),
        !["history"] = Bool(TRUE),
        !["mode"] = Str("tree"),
        !["search"] = Bool(TRUE),
        !["indentation"] = Num(2),
        !["mainMenuBar"] = Bool(TRUE),
        !["navigationBar"] = Bool(TRUE),
        !["statusBar"] = Bool(TRUE),
        !["colorPicker"] = Bool(TRUE),
        !["enableSort"] = Bool(TRUE),
        !["enableTransform"] = Bool(TRUE),
        !["maxVisibleChilds"] = Num(100),
        !["expandAll"] = Bool(FALSE)]

(***************************************************************************)
(* The modes under which a field has effect, as the doc comments of the    *)
(* fields state it.  A field whose comment names no mode applies in all.   *)
(***************************************************************************)
ApplicableModes(f) ==
    CASE f = "ace" -> {"code"}
      [] f = "onClassName" -> {"tree", "form", "view"}
      [] f = "onEditable" -> {"tree", "text", "code"}
      [] f = "onCreateMenu" -> {"tree"}
      [] f = "sortObjectKeys" -> {"tree", "view", "form"}
      [] f = "history" -> {"tree", "form", "preview"}
      [] f = "name" -> {"tree", "view", "form"}
      [] f = "search" -> {"tree", "view", "form"}
      [] f = "indentation" -> {"code", "text", "preview"}
      [] f = "autocomplete" -> {"tree"}
      [] f = "navigationBar" -> {"tree", "form", "view"}
      [] f = "statusBar" -> {"code", "text", "preview"}
      [] f = "enableSort" -> {"tree"}
      [] f = "enableTransform" -> {"tree"}
      [] f = "maxVisibleChilds" -> {"tree", "view", "form"}
      [] OTHER -> JsonEditorMode

\* A lookup that treats statusBar like mainMenuBar (applicable in all modes).
isApplicable_StatusBarAll(f, m) ==
    IF f = "statusBar" THEN m \in JsonEditorMode ELSE m \in ApplicableModes(f)

isApplicable(f, m) == m \in ApplicableModes(f)

\* The mode string of a configuration ("" when mode holds no string).
ModeOf(o) == IF o["mode"][1] = "string" THEN o["mode"][2] ELSE ""


(***************************************************************************)
(* Field writes as an accessor with a bug would perform them.              *)
(***************************************************************************)
\* Skips an assignment of undefined, keeping the value already there.
Write_SkipUndefined(o, f, v) ==
    IF v = Undefined THEN o ELSE [o EXCEPT ![f] = v]

\* Stores a boolean flag inverted.
Write_Inverted(o, f, v) ==
    IF v[1] = "boolean" THEN [o EXCEPT ![f] = Bool(~v[2])]
    ELSE [o EXCEPT ![f] = v]

\* Ignores a mode that is not one of the six editor modes.
Write_RejectBadMode(o, f, v) ==
    IF f = "mode" /\ v[1] = "string" /\ v[2] \notin JsonEditorMode THEN o
    ELSE [o EXCEPT ![f] = v]

\* Keeps mode inside modes: after the write, a mode that is not listed in a
\* non-empty modes is replaced by the first listed mode.
Write_EnforceModes(o, f, v) ==
    LET w == [o EXCEPT ![f] = v]
        listed == IF w["modes"][1] = "array" THEN w["modes"][2] ELSE <<>>
    IN  IF /\ Len(listed) > 0
           /\ \A i \in 1..Len(listed) : Str(listed[i]) # w["mode"]
        THEN [w EXCEPT !["mode"] = Str(listed[1])]
        ELSE w

\* Ignores a value for a field that is not applicable under the current mode.
Write_DropInapplicable(o, f, v) ==
    IF f # "mode" /\ ~isApplicable(f, ModeOf(o)) THEN o
    ELSE [o EXCEPT ![f] = v]

\* Rebuilds the instance from the defaults before storing the value.
Write_Reset(o, f, v) == [JsonEditorOptions EXCEPT ![f] = v]

(***************************************************************************)
(* `o.f = v` on a public data property: the value is stored as given and   *)
(* no other property is touched.                                           *)
(***************************************************************************)
Write(o, f, v) == [o EXCEPT ![f] = v]

(***************************************************************************)
(* A partial configuration is a function from some of the fields to        *)
(* values.  The code has no function that takes one: the host resolves it  *)
(* by constructing an instance and assigning each key of the partial       *)
(* configuration in turn.                                                  *)
(***************************************************************************)
EmptyConfig == [f \in {} |-> Undefined]

Put(P, k, v) == [f \in DOMAIN P \cup {k} |-> IF f = k THEN v ELSE P[f]]

RECURSIVE AssignAll(_, _, _)
AssignAll(o, P, keys) ==
    IF keys = {} THEN o
    ELSE LET k == CHOOSE x \in keys : TRUE
         IN  AssignAll(Write(o, k, P[k]), P, keys \ {k})

resolve(P) == AssignAll(JsonEditorOptions, P, DOMAIN P)

(***************************************************************************)
(* The values the host assigns in the model.                               *)
(***************************************************************************)
HostValues(f) ==
    CASE f = "mode" ->
            {Str(m) : m \in JsonEditorMode} \cup {Str("bogus"), Undefined}
      [] f = "modes" ->
            {Arr(<<>>), Arr(<<"code", "text">>), Arr(<<"tree", "code">>)}
      [] f = "indentation" -> {Num(4), Undefined}
      [] f = "maxVisibleChilds" -> {Num(50), Undefined}
      [] f = "theme" -> {Num(1)}
      [] f = "history" -> {Bool(FALSE), Bool(TRUE), Undefined}
      [] f = "schema" -> {Obj("schemaA"), Obj("schemaB")}
      [] f = "timestampTag" -> {Bool(TRUE), Fn("timestampTag")}
      [] f \in BooleanFields ->
            {Bool(JsonEditorOptions[f] # Bool(TRUE)), Undefined}
      [] f \in StringFields -> {Str(f)}
      [] f \in ObjectFields -> {Obj(f)}
      [] f \in CallbackFields -> {Fn(f)}

(***************************************************************************)
(* Completion records.  No statement of the class creates an error value   *)
(* or throws, so every operation completes normally and reports nothing.   *)
(***************************************************************************)
Completed(op, honoured) ==
    [op |-> op, honoured |-> honoured, thrown |-> FALSE, reported |-> {}]

NoLookup == [field |-> "", mode |-> "", result |-> FALSE]

Init ==
    /\ options = JsonEditorOptions
    /\ supplied = EmptyConfig
    /\ outcome = Completed("new", {})
    /\ lookup = NoLookup

\* The host assigns a field of the instance.
HostSet(f, v) ==
    /\ f \in DOMAIN supplied \/ Cardinality(DOMAIN supplied) < MaxSupplied
    /\ options' = Write(options, f, v)
    /\ supplied' = Put(supplied, f, v)
    /\ outcome' = Completed("set", {})
    /\ UNCHANGED lookup

\* A render pass: the engine reads the instance and honours the fields that
\* are set and applicable under the configured mode.
Render ==
    /\ outcome' = Completed("render",
            {f \in Fields : /\ options[f] # Undefined
                            /\ isApplicable(f, ModeOf(options))})
    /\ UNCHANGED <<options, supplied, lookup>>

\* The engine reads a callback field that holds a function and calls it.
Invoke(cb) ==
    /\ options[cb][1] = "function"
    /\ outcome' = Completed("invoke", {cb})
    /\ UNCHANGED <<options, supplied, lookup>>

\* A mode-applicability lookup.
Lookup(f, m) ==
    /\ lookup' = [field |-> f, mode |-> m, result |-> isApplicable(f, m)]
    /\ UNCHANGED <<options, supplied, outcome>>

Next ==
    \/ \E f \in Fields : \E v \in HostValues(f) : HostSet(f, v)
    \/ Render
    \/ \E cb \in CallbackFields \cup {"timestampTag"} : Invoke(cb)

Spec == Init /\ [][Next]_vars

\* Lookups, with the host changing the mode in between.
TableNext ==
    \/ \E f \in Fields : \E m \in JsonEditorMode : Lookup(f, m)
    \/ \E v \in HostValues("mode") : HostSet("mode", v)

TableSpec == Init /\ [][TableNext]_vars

(***************************************************************************)
(* The documented behaviour the properties below compare the code with.    *)
(***************************************************************************)
\* The defaults table of the specification (section 4.1).
DocumentedDefault ==
    [escapeUnicode |-> Bool(FALSE), sortObjectKeys |-> Bool(FALSE),
     history |-> Bool(TRUE), mode |-> Str("tree"), search |-> Bool(TRUE),
     indentation |-> Num(2), mainMenuBar |-> Bool(TRUE),
     navigationBar |-> Bool(TRUE), statusBar |-> Bool(TRUE),
     colorPicker |-> Bool(TRUE), enableSort |-> Bool(TRUE),
     enableTransform |-> Bool(TRUE), maxVisibleChilds |-> Num(100),
     expandAll |-> Bool(FALSE)]

DefaultBearing == DOMAIN DocumentedDefault

\* What a field that the caller did not supply is documented to hold.
FreshValue(f) == IF f \in DefaultBearing THEN DocumentedDefault[f] ELSE Undefined

\* The applicability sets the specification names (section 4.3).
ClaimedModes ==
    [ace |-> {"code"},
     search |-> {"tree", "view", "form"},
     navigationBar |-> {"tree", "view", "form"},
     indentation |-> {"code", "text", "preview"},
     statusBar |-> {"code", "text", "preview"},
     enableSort |-> {"tree"},
     enableTransform |-> {"tree"}]

\* The host supplied a mode string that is none of the six editor modes.
BadModeSupplied ==
    /\ "mode" \in DOMAIN supplied
    /\ supplied["mode"][1] = "string"
    /\ supplied["mode"][2] \notin JsonEditorMode

\* modes holds a non-empty array.
ModesNonEmpty(o) == o["modes"][1] = "array" /\ Len(o["modes"][2]) > 0

\* mode is a member of modes whenever modes holds a non-empty array.
ModeInModes(o) ==
    ModesNonEmpty(o) =>
        \E i \in 1..Len(o["modes"][2]) : Str(o["modes"][2][i]) = o["mode"]

\* The value a field holds after the host's assignments so far.
LastSet(f) == IF f \in DOMAIN supplied THEN supplied[f] ELSE JsonEditorOptions[f]

C2_Original ==
    resolve(supplied) =
        [f \in Fields |->
            IF /\ f \in DOMAIN supplied
               /\ ~(f \in DefaultBearing /\ supplied[f] = Undefined)
            THEN supplied[f]
            ELSE FreshValue(f)]

(***************************************************************************)
(* C2, amended: resolving P gives every default-bearing field absent from  *)
(* P its documented default, every other absent field undefined, and every *)
(* field present in P the caller's value, also when that value is          *)
(* undefined; the instance the host built step by step is that result.     *)
(***************************************************************************)
C2_Amended ==
    /\ resolve(supplied) =
            [f \in Fields |->
                IF f \in DOMAIN supplied THEN supplied[f] ELSE FreshValue(f)]
    /\ options = resolve(supplied)

C2_Witness ==
    /\ DOMAIN supplied = {"mode", "indentation"}
    /\ supplied["mode"] = Str("code")
    /\ supplied["indentation"] = Num(4)
    /\ resolve(supplied)["mode"] = Str("code")
    /\ resolve(supplied)["indentation"] = Num(4)
    /\ resolve(supplied)["search"] = Bool(TRUE)

(***************************************************************************)
(* C3: resolve is idempotent: resolving the result of resolving P gives    *)
(* that result again, field by field.                                      *)
(***************************************************************************)
C3_Idempotent ==
    LET R == resolve(supplied)
    IN  resolve(R) = R

C3_Witness ==
    /\ "escapeUnicode" \in DOMAIN supplied
    /\ supplied["escapeUnicode"] = Bool(TRUE)
    /\ resolve(resolve(supplied))["escapeUnicode"] = Bool(TRUE)

(***************************************************************************)
(* C4: the applicability lookup answers true exactly for the documented    *)
(* modes of ace, search, navigationBar, indentation, statusBar, enableSort *)
(* and enableTransform; ace is applicable under code and not under tree.   *)
(***************************************************************************)
C4_Table ==
    /\ isApplicable("ace", "code")
    /\ ~isApplicable("ace", "tree")
    /\ lookup # NoLookup /\ lookup.field \in DOMAIN ClaimedModes =>
            lookup.result = (lookup.mode \in ClaimedModes[lookup.field])

C4_Witness ==
    /\ lookup.field = "statusBar"
    /\ lookup.mode = "tree"
    /\ lookup.result = FALSE
    /\ ModeOf(options) = "code"

(***************************************************************************)
(* C5, as stated: when the host has supplied a mode outside the six editor *)
(* modes, the assignment reports an error value and does not throw.        *)
(***************************************************************************)
C5_Original ==
    BadModeSupplied /\ outcome.op = "set" =>
        outcome.reported # {} /\ ~outcome.thrown

(***************************************************************************)
(* C5, amended: a mode outside the six editor modes is neither reported    *)
(* nor thrown; the instance keeps the supplied value in mode and every     *)
(* other field as the host last set it, so it stays usable.                *)
(***************************************************************************)
C5_Amended ==
    BadModeSupplied =>
        /\ outcome.reported = {}
        /\ ~outcome.thrown
        /\ options["mode"] = supplied["mode"]
        /\ \A f \in Fields : options[f] = LastSet(f)

C5_Witness ==
    /\ BadModeSupplied
    /\ outcome.op = "set"
    /\ options["mode"] = Str("bogus")

(***************************************************************************)
(* C8, as stated: whenever modes holds a non-empty array, mode is one of   *)
(* its members, or else the assignment reported an error value.            *)
(***************************************************************************)
C8_Original ==
    ModesNonEmpty(options) /\ outcome.op = "set" =>
        \/ ModeInModes(options)
        \/ outcome.reported # {}

(***************************************************************************)
(* C8, amended: the default configuration (mode "tree", modes unset)       *)
(* satisfies "mode is a member of a non-empty modes", but the class does   *)
(* not enforce it: when the host supplies modes, modes and mode keep the   *)
(* values the host last set (mode its default "tree" if never set), nothing*)
(* is reported and nothing is thrown, whether or not mode is listed.       *)
(***************************************************************************)
C8_Amended ==
    /\ supplied = EmptyConfig => ModeInModes(options) /\ ~ModesNonEmpty(options)
    /\ "modes" \in DOMAIN supplied =>
            /\ options["modes"] = supplied["modes"]
            /\ options["mode"] = LastSet("mode")
            /\ outcome.reported = {}
            /\ ~outcome.thrown

C8_Witness ==
    /\ options["modes"] = Arr(<<"code", "text">>)
    /\ options["mode"] = Str("tree")
    /\ ~ModeInModes(options)
    /\ outcome.op = "set"

(***************************************************************************)
(* C9: a value the host supplies for a field that is not applicable under  *)
(* the configured mode is kept unchanged, and nothing is reported or       *)
(* thrown for it.                                                          *)
(***************************************************************************)
C9_InapplicableAccepted ==
    \A f \in DOMAIN supplied :
        ~isApplicable(f, ModeOf(options)) =>
            /\ options[f] = supplied[f]
            /\ outcome.reported = {}
            /\ ~outcome.thrown

C9_Witness ==
    /\ ModeOf(options) = "tree"
    /\ "ace" \in DOMAIN supplied
    /\ ~isApplicable("ace", ModeOf(options))
    /\ options["ace"] = Obj("ace")
    /\ outcome.op = "set"

(***************************************************************************)
(* C10: a field of the instance changes only in a step in which the host   *)
(* assigns that field, and then to the assigned value, with every other    *)
(* field unchanged; render passes and callback invocations change nothing; *)
(* after every step each field holds the value the host last set, or its   *)
(* constructed value if the host never set it.                             *)
(***************************************************************************)
C10_OnlyHostMutations ==
    [][/\ \A f \in Fields :
            options'[f] # options[f] =>
                /\ outcome'.op = "set"
                /\ f \in DOMAIN supplied'
                /\ options'[f] = supplied'[f]
                /\ \A g \in Fields \ {f} : options'[g] = options[g]
       /\ outcome'.op \in {"render", "invoke"} => options' = options
       /\ \A f \in Fields :
            options'[f] = IF f \in DOMAIN supplied' THEN supplied'[f]
                          ELSE JsonEditorOptions[f]
      ]_vars

C10_Witness ==
    /\ Cardinality(DOMAIN supplied) = 2
    /\ outcome.op = "render"
    /\ "mode" \in DOMAIN supplied
    /\ options["mode"] = Str("code")
    /\ \A f \in DOMAIN supplied : options[f] = supplied[f]

====
